---------------------------- MODULE Spec2Model ----------------------------
(***************************************************************************)
(* Model of src/hvd.c, the HVD hardware video decoder wrapper.             *)
(*                                                                         *)
(* The library is single threaded: one control location (pc) walks through *)
(* the body of the API call in progress, one action per statement that     *)
(* calls into the multimedia framework.  The framework itself (registries, *)
(* allocator, device, decoder) is the environment: every call into it is a *)
(* nondeterministic choice among the results its API documents for the     *)
(* state it is in.                                                         *)
(***************************************************************************)
EXTENDS Integers, Sequences, FiniteSets, TLC

(*************************** bounds of the model ***************************)
MaxFrames == 4      \* av_frame_alloc calls that succeed, per handle
MaxPackets == 2     \* hvd_send_packet calls per handle
MaxData == 1        \* distinct caller buffers
MaxBuffered == 1    \* frames the decoder holds before it answers EAGAIN
MaxFmts == 2        \* length of the list the decoder offers to get_format

(**************************** program constants ****************************)
NULL == 0
H == 1              \* the address malloc returns for struct hvd
CTX == 1            \* the address of the AVCodecContext
DEV == 1            \* the address of the AVBufferRef of the device
DECODER == 1        \* the address of the AVCodec found by name

HVD_OK == "HVD_OK"
HVD_ERROR == "HVD_ERROR"
HVD_AGAIN == "HVD_AGAIN"

AVERROR_EAGAIN == -11
AVERROR_EOF == -541478725
AVERROR_EINVAL == -22
AVERROR_INVALIDDATA == -1094995529

AV_PIX_FMT_NONE == -1
AV_PIX_FMT_YUV420P == 0
AV_PIX_FMT_VAAPI == 1
AV_PIX_FMT_DXVA2_VLD == 2
AV_PIX_FMT_D3D11 == 3
AV_PIX_FMT_VDPAU == 4
AV_PIX_FMT_VIDEOTOOLBOX == 5

AV_HWDEVICE_TYPE_NONE == 0
AV_HWDEVICE_TYPE_VDPAU == 1
AV_HWDEVICE_TYPE_CUDA == 2
AV_HWDEVICE_TYPE_VAAPI == 3
AV_HWDEVICE_TYPE_DXVA2 == 4
AV_HWDEVICE_TYPE_QSV == 5
AV_HWDEVICE_TYPE_VIDEOTOOLBOX == 6
AV_HWDEVICE_TYPE_D3D11VA == 7

VARIABLES
    pc,             \* control location; "idle" between API calls
    handle,         \* the caller's handle: "none", "valid", "closed"
    lastOp,         \* the API call that returned last
    config,         \* hvd_init's argument
    packet,         \* hvd_send_packet's argument (NULL or a struct)
    hardware_type,  \* hvd_init's local
    decoder,        \* hvd_init's local
    hw_device_ctx,  \* struct hvd
    hw_pix_fmt,     \* struct hvd
    decoder_ctx,    \* struct hvd
    sw_frame,       \* struct hvd
    hw_frame,       \* struct hvd
    av_packet,      \* struct hvd
    ctx,            \* the AVCodecContext decoder_ctx points to
    dec,            \* the framework's decoder behind the context
    frames,         \* the AVFrames ever allocated, by address
    retval,         \* pointer returned by hvd_init / hvd_receive_frame
    sendret,        \* value returned by hvd_send_packet
    error,          \* *error of hvd_receive_frame
    calls,          \* framework calls made by the current API call
    sent,           \* history: the arguments of the hvd_send_packet calls
    seen,           \* history: the packets avcodec_send_packet was given
    given,          \* history: the frame the caller holds, with its contents
    startover,      \* history: EOF was reported and no flush requested since
    cb              \* history: the last run of the get_format callback

vars == <<pc, handle, lastOp, config, packet, hardware_type, decoder,
          hw_device_ctx, hw_pix_fmt, decoder_ctx, sw_frame, hw_frame,
          av_packet, ctx, dec, frames, retval, sendret, error, calls,
          sent, seen, given, startover, cb>>

hvd_fields == <<hw_device_ctx, hw_pix_fmt, decoder_ctx, sw_frame, hw_frame, av_packet>>
history == <<sent, seen, given, startover>>

(****************************** the registries *****************************)
HardwareNames == {"vaapi", "dxva2", "d3d11va", "vdpau", "videotoolbox",
                  "cuda", "qsv", "nosuchhw"}
CodecNames == {"h264", "nosuchcodec"}

av_hwdevice_find_type_by_name(name) ==
    CASE name = "vdpau" -> AV_HWDEVICE_TYPE_VDPAU
      [] name = "cuda" -> AV_HWDEVICE_TYPE_CUDA
      [] name = "vaapi" -> AV_HWDEVICE_TYPE_VAAPI
      [] name = "dxva2" -> AV_HWDEVICE_TYPE_DXVA2
      [] name = "qsv" -> AV_HWDEVICE_TYPE_QSV
      [] name = "videotoolbox" -> AV_HWDEVICE_TYPE_VIDEOTOOLBOX
      [] name = "d3d11va" -> AV_HWDEVICE_TYPE_D3D11VA
      [] OTHER -> AV_HWDEVICE_TYPE_NONE

avcodec_find_decoder_by_name(name) ==
    IF name = "h264" THEN DECODER ELSE NULL

\* faulty variant: the default branch hands out a format instead of AV_PIX_FMT_NONE
hvd_find_pixel_fmt_default_vaapi(type) ==
    CASE type = AV_HWDEVICE_TYPE_VAAPI -> AV_PIX_FMT_VAAPI
      [] type = AV_HWDEVICE_TYPE_DXVA2 -> AV_PIX_FMT_DXVA2_VLD
      [] type = AV_HWDEVICE_TYPE_D3D11VA -> AV_PIX_FMT_D3D11
      [] type = AV_HWDEVICE_TYPE_VDPAU -> AV_PIX_FMT_VDPAU
      [] type = AV_HWDEVICE_TYPE_VIDEOTOOLBOX -> AV_PIX_FMT_VIDEOTOOLBOX
      [] OTHER -> AV_PIX_FMT_VAAPI

hvd_find_pixel_fmt_by_hw_type(type) ==
    CASE type = AV_HWDEVICE_TYPE_VAAPI -> AV_PIX_FMT_VAAPI
      [] type = AV_HWDEVICE_TYPE_DXVA2 -> AV_PIX_FMT_DXVA2_VLD
      [] type = AV_HWDEVICE_TYPE_D3D11VA -> AV_PIX_FMT_D3D11
      [] type = AV_HWDEVICE_TYPE_VDPAU -> AV_PIX_FMT_VDPAU
      [] type = AV_HWDEVICE_TYPE_VIDEOTOOLBOX -> AV_PIX_FMT_VIDEOTOOLBOX
      [] OTHER -> AV_PIX_FMT_NONE

(******************************** AVFrame **********************************)
NewFrame == [live |-> TRUE, frees |-> 0, format |-> AV_PIX_FMT_NONE,
             decoded |-> FALSE, src |-> NULL]

\* av_frame_free(&p): frees *p unless it is NULL (the caller then sets p to NULL)
av_frame_free(fs, p) ==
    IF p = NULL THEN fs
    ELSE [fs EXCEPT ![p].live = FALSE, ![p].frees = @ + 1]

(***************************** AVCodecContext ******************************)
NoCtx == [opaque |-> NULL, get_format |-> FALSE, hw_device_ctx |-> NULL,
          open |-> FALSE]
NoDec == [draining |-> FALSE, buffered |-> 0, pix_fmt |-> AV_PIX_FMT_NONE]
EmptyPacket == [data |-> NULL, size |-> 0]

\* struct hvd_packet *: the NULL pointer, or a struct with data and size
NullPacket == [null |-> TRUE, data |-> NULL, size |-> 0]
UserPackets ==
    {NullPacket, [null |-> FALSE, data |-> NULL, size |-> 0]}
    \cup { [null |-> FALSE, data |-> d, size |-> 10 * d] : d \in 1..MaxData }
NoCb == [ran |-> FALSE, pix_fmts |-> <<>>, result |-> AV_PIX_FMT_NONE,
         opaque |-> NULL, hw_pix_fmt |-> AV_PIX_FMT_NONE]
NoGiven == [frame |-> NULL, contents |-> NewFrame]

Call(fn, rc) == [fn |-> fn, rc |-> rc]

(***************************************************************************)
(* hvd_get_hw_pix_format: scan the list up to its -1 terminator and return *)
(* the first entry equal to h->hw_pix_fmt.  pix_fmts includes the          *)
(* terminator, as the array in memory does.                                *)
(***************************************************************************)
RECURSIVE ScanFormats(_, _, _)
ScanFormats(pix_fmts, p, fmt) ==
    IF pix_fmts[p] = -1 THEN AV_PIX_FMT_NONE
    ELSE IF pix_fmts[p] = fmt THEN pix_fmts[p]
    ELSE ScanFormats(pix_fmts, p + 1, fmt)

\* faulty variant: the first offered format is returned without the comparison
hvd_get_first_format(h_hw_pix_fmt, pix_fmts) ==
    IF pix_fmts[1] = -1 THEN AV_PIX_FMT_NONE ELSE pix_fmts[1]

hvd_get_hw_pix_format(h_hw_pix_fmt, pix_fmts) ==
    ScanFormats(pix_fmts, 1, h_hw_pix_fmt)

Init ==
    /\ pc = "idle"
    /\ handle = "none"
    /\ lastOp = "none"
    /\ config = [hardware |-> "nosuchhw", codec |-> "nosuchcodec"]
    /\ packet = NullPacket
    /\ hardware_type = AV_HWDEVICE_TYPE_NONE
    /\ decoder = NULL
    /\ hw_device_ctx = NULL
    /\ hw_pix_fmt = AV_PIX_FMT_NONE
    /\ decoder_ctx = NULL
    /\ sw_frame = NULL
    /\ hw_frame = NULL
    /\ av_packet = EmptyPacket
    /\ ctx = NoCtx
    /\ dec = NoDec
    /\ frames = <<>>
    /\ retval = NULL
    /\ sendret = HVD_OK
    /\ error = HVD_OK
    /\ calls = <<>>
    /\ sent = <<>>
    /\ seen = <<>>
    /\ given = NoGiven
    /\ startover = FALSE
    /\ cb = NoCb


(***************************************************************************)
(* The lists a decoder may offer to get_format: distinct formats, ended by *)
(* the -1 terminator.                                                      *)
(***************************************************************************)
AllFormats == {AV_PIX_FMT_YUV420P, AV_PIX_FMT_VAAPI, AV_PIX_FMT_DXVA2_VLD,
               AV_PIX_FMT_D3D11, AV_PIX_FMT_VDPAU, AV_PIX_FMT_VIDEOTOOLBOX}

Distinct(s) == \A i, j \in DOMAIN s : i # j => s[i] # s[j]

FormatLists ==
    { Append(s, -1) : s \in { t \in UNION { [1..n -> AllFormats] : n \in 0..MaxFmts } :
                              Distinct(t) } }

\* what the callback reads through ctx->opaque: h->hw_pix_fmt, or anything at
\* all when opaque was never set (a read through a NULL pointer)
ReadThroughOpaque ==
    IF ctx.opaque = H THEN {hw_pix_fmt} ELSE AllFormats \cup {AV_PIX_FMT_NONE}

(***************************************************************************)
(* The decoder choosing its output format.  Either it is a software-only   *)
(* decoder and never asks, or it calls ctx->get_format with a list; with   *)
(* no callback installed the default one takes any offered format.         *)
(* fmt is the format chosen, c the record of the callback's run.           *)
(***************************************************************************)
Negotiate(fmt, c) ==
    \/ /\ fmt = AV_PIX_FMT_YUV420P
       /\ c = cb
    \/ /\ ctx.get_format
       /\ \E l \in FormatLists, f \in ReadThroughOpaque :
            /\ fmt = hvd_get_hw_pix_format(f, l)
            /\ c = [ran |-> TRUE, pix_fmts |-> l, result |-> fmt,
                    opaque |-> ctx.opaque, hw_pix_fmt |-> hw_pix_fmt]
    \/ /\ ~ctx.get_format
       /\ fmt \in AllFormats
       /\ c = cb

(******************************* hvd_close *********************************)
hvd_close_frames == av_frame_free(av_frame_free(frames, sw_frame), hw_frame)

\* the body of hvd_close: every pointer is freed and set to NULL
hvd_close_body ==
    /\ frames' = hvd_close_frames
    /\ sw_frame' = NULL
    /\ hw_frame' = NULL
    /\ decoder_ctx' = NULL
    /\ ctx' = NoCtx
    /\ dec' = NoDec
    /\ hw_device_ctx' = NULL

hvd_close_and_return_null ==
    /\ hvd_close_body
    /\ pc' = "idle"
    /\ lastOp' = "hvd_init"
    /\ handle' = "none"
    /\ retval' = NULL

(******************************** hvd_init *********************************)
\* lines 38-54: the call, malloc and zeroing of the struct
hvd_init ==
    /\ pc = "idle"
    /\ handle = "none"
    /\ \E hw \in HardwareNames, codec \in CodecNames :
         config' = [hardware |-> hw, codec |-> codec]
    /\ cb' = NoCb
    /\ hardware_type' = AV_HWDEVICE_TYPE_NONE
    /\ decoder' = NULL
    /\ \/ /\ calls' = <<Call("malloc", NULL)>>
          /\ pc' = "idle"
          /\ lastOp' = "hvd_init"
          /\ retval' = NULL
          /\ UNCHANGED <<hvd_fields, frames, ctx, dec>>
       \/ /\ calls' = <<Call("malloc", H)>>
          /\ pc' = "init_find_type"
          /\ hw_device_ctx' = NULL
          /\ hw_pix_fmt' = 0
          /\ decoder_ctx' = NULL
          /\ sw_frame' = NULL
          /\ hw_frame' = NULL
          /\ av_packet' = EmptyPacket
          /\ frames' = <<>>
          /\ ctx' = NoCtx
          /\ dec' = NoDec
          /\ UNCHANGED <<lastOp, retval>>
    /\ UNCHANGED <<handle, packet, sendret, error, history>>

\* lines 56-60
init_find_type ==
    /\ pc = "init_find_type"
    /\ hardware_type' = av_hwdevice_find_type_by_name(config.hardware)
    /\ calls' = Append(calls, Call("av_hwdevice_find_type_by_name", hardware_type'))
    /\ IF hardware_type' = AV_HWDEVICE_TYPE_NONE
       THEN hvd_close_and_return_null
       ELSE /\ pc' = "init_find_pix_fmt"
            /\ UNCHANGED <<hw_device_ctx, decoder_ctx, sw_frame, hw_frame, ctx,
                           dec, frames, lastOp, handle, retval>>
    /\ UNCHANGED <<config, packet, decoder, hw_pix_fmt, av_packet, sendret,
                   error, history, cb>>

\* lines 64-68
init_find_pix_fmt ==
    /\ pc = "init_find_pix_fmt"
    /\ hw_pix_fmt' = hvd_find_pixel_fmt_by_hw_type(hardware_type)
    /\ calls' = Append(calls, Call("hvd_find_pixel_fmt_by_hw_type", hw_pix_fmt'))
    /\ IF hw_pix_fmt' = AV_PIX_FMT_NONE
       THEN hvd_close_and_return_null
       ELSE /\ pc' = "init_find_decoder"
            /\ UNCHANGED <<hw_device_ctx, decoder_ctx, sw_frame, hw_frame, ctx,
                           dec, frames, lastOp, handle, retval>>
    /\ UNCHANGED <<config, packet, hardware_type, decoder, av_packet, sendret,
                   error, history, cb>>

\* lines 70-74
init_find_decoder ==
    /\ pc = "init_find_decoder"
    /\ decoder' = avcodec_find_decoder_by_name(config.codec)
    /\ calls' = Append(calls, Call("avcodec_find_decoder_by_name", decoder'))
    /\ IF decoder' = NULL
       THEN hvd_close_and_return_null
       ELSE /\ pc' = "init_alloc_context"
            /\ UNCHANGED <<hw_device_ctx, decoder_ctx, sw_frame, hw_frame, ctx,
                           dec, frames, lastOp, handle, retval>>
    /\ UNCHANGED <<config, packet, hardware_type, hw_pix_fmt, av_packet,
                   sendret, error, history, cb>>

\* lines 76-80: avcodec_alloc_context3 may run out of memory
init_alloc_context ==
    /\ pc = "init_alloc_context"
    /\ \/ /\ calls' = Append(calls, Call("avcodec_alloc_context3", NULL))
          /\ hvd_close_and_return_null
       \/ /\ calls' = Append(calls, Call("avcodec_alloc_context3", CTX))
          /\ decoder_ctx' = CTX
          /\ ctx' = NoCtx
          /\ dec' = NoDec
          /\ pc' = "init_set_callback"
          /\ UNCHANGED <<hw_device_ctx, sw_frame, hw_frame, frames, lastOp,
                         handle, retval>>
    /\ UNCHANGED <<config, packet, hardware_type, decoder, hw_pix_fmt,
                   av_packet, sendret, error, history, cb>>

\* lines 86-87: the user data and the callback of the context
set_callback == [ctx EXCEPT !.opaque = H, !.get_format = TRUE]

init_set_callback ==
    /\ pc = "init_set_callback"
    /\ ctx' = set_callback
    /\ pc' = "init_hwdevice_create"
    /\ UNCHANGED <<handle, lastOp, config, packet, hardware_type, decoder,
                   hvd_fields, dec, frames, retval, sendret, error, calls,
                   history, cb>>

\* lines 89-93: av_hwdevice_ctx_create fails with a negative code or yields
\* the device reference
init_hwdevice_create ==
    /\ pc = "init_hwdevice_create"
    /\ \/ /\ calls' = Append(calls, Call("av_hwdevice_ctx_create", AVERROR_EINVAL))
          /\ hvd_close_and_return_null
       \/ /\ calls' = Append(calls, Call("av_hwdevice_ctx_create", 0))
          /\ hw_device_ctx' = DEV
          /\ pc' = "init_buffer_ref"
          /\ UNCHANGED <<decoder_ctx, sw_frame, hw_frame, ctx, dec, frames,
                         lastOp, handle, retval>>
    /\ UNCHANGED <<config, packet, hardware_type, decoder, hw_pix_fmt,
                   av_packet, sendret, error, history, cb>>

\* lines 95-99
init_buffer_ref ==
    /\ pc = "init_buffer_ref"
    /\ \/ /\ calls' = Append(calls, Call("av_buffer_ref", NULL))
          /\ hvd_close_and_return_null
       \/ /\ calls' = Append(calls, Call("av_buffer_ref", DEV))
          /\ ctx' = [ctx EXCEPT !.hw_device_ctx = DEV]
          /\ pc' = "init_open"
          /\ UNCHANGED <<hw_device_ctx, decoder_ctx, sw_frame, hw_frame, dec,
                         frames, lastOp, handle, retval>>
    /\ UNCHANGED <<config, packet, hardware_type, decoder, hw_pix_fmt,
                   av_packet, sendret, error, history, cb>>

\* lines 101-105: avcodec_open2; the decoder may already choose its format
\* here, and fails to open when the choice yields no format
init_open ==
    /\ pc = "init_open"
    /\ \/ /\ calls' = Append(calls, Call("avcodec_open2", AVERROR_EINVAL))
          /\ hvd_close_and_return_null
          /\ cb' = cb
       \/ /\ calls' = Append(calls, Call("avcodec_open2", 0))
          /\ ctx' = [ctx EXCEPT !.open = TRUE]
          /\ dec' = NoDec
          /\ cb' = cb
          /\ pc' = "init_return"
          /\ UNCHANGED <<hw_device_ctx, decoder_ctx, sw_frame, hw_frame,
                         frames, lastOp, handle, retval>>
       \/ \E fmt \in AllFormats \cup {AV_PIX_FMT_NONE} :
            /\ Negotiate(fmt, cb')
            /\ IF fmt = AV_PIX_FMT_NONE
               THEN /\ calls' = Append(calls, Call("avcodec_open2", AVERROR_EINVAL))
                    /\ hvd_close_and_return_null
               ELSE /\ calls' = Append(calls, Call("avcodec_open2", 0))
                    /\ ctx' = [ctx EXCEPT !.open = TRUE]
                    /\ dec' = [NoDec EXCEPT !.pix_fmt = fmt]
                    /\ pc' = "init_return"
                    /\ UNCHANGED <<hw_device_ctx, decoder_ctx, sw_frame,
                                   hw_frame, frames, lastOp, handle, retval>>
    /\ UNCHANGED <<config, packet, hardware_type, decoder, hw_pix_fmt,
                   av_packet, sendret, error, history>>

\* lines 107-111
init_return ==
    /\ pc = "init_return"
    /\ av_packet' = EmptyPacket
    /\ pc' = "idle"
    /\ lastOp' = "hvd_init"
    /\ handle' = "valid"
    /\ retval' = H
    /\ UNCHANGED <<config, packet, hardware_type, decoder, hw_device_ctx,
                   hw_pix_fmt, decoder_ctx, sw_frame, hw_frame, ctx, dec,
                   frames, sendret, error, calls, history, cb>>

\* lines 162-170, called by the user
hvd_close ==
    /\ pc = "idle"
    /\ handle \in {"valid", "closed"}
    /\ hvd_close_body
    /\ handle' = "closed"
    /\ lastOp' = "hvd_close"
    /\ calls' = <<>>
    /\ given' = NoGiven
    /\ cb' = NoCb
    /\ UNCHANGED <<pc, config, packet, hardware_type, decoder, hw_pix_fmt,
                   av_packet, retval, sendret, error, sent, seen, startover>>


(***************************** hvd_send_packet *****************************)
\* lines 182-191: the packet handed to the decoder
fill_av_packet(pkt) ==
    IF ~pkt.null
    THEN [data |-> pkt.data, size |-> pkt.size]
    ELSE [data |-> NULL, size |-> 0]

\* faulty variant: EAGAIN is not told apart from the other negative codes
send_result_no_again(err) ==
    IF err < 0 THEN HVD_ERROR ELSE HVD_OK

\* lines 196-203: the value returned for the framework's code err
send_result(err) ==
    IF err < 0
    THEN (IF err = AVERROR_EAGAIN THEN HVD_AGAIN ELSE HVD_ERROR)
    ELSE HVD_OK

hvd_send_packet ==
    /\ pc = "idle"
    /\ handle = "valid"
    /\ Len(sent) < MaxPackets
    /\ \E pkt \in UserPackets :
         /\ packet' = pkt
         /\ av_packet' = fill_av_packet(pkt)
         /\ sent' = Append(sent, pkt)
    /\ calls' = <<>>
    /\ cb' = NoCb
    /\ pc' = "send_avcodec"
    /\ UNCHANGED <<handle, lastOp, config, hardware_type, decoder,
                   hw_device_ctx, hw_pix_fmt, decoder_ctx, sw_frame, hw_frame,
                   ctx, dec, frames, retval, sendret, error, seen, given,
                   startover>>

\* faulty variant: a packet refused with EAGAIN is sent a second time
send_return_retry(err) ==
    /\ calls' = IF err = AVERROR_EAGAIN
                THEN calls \o <<Call("avcodec_send_packet", err),
                                Call("avcodec_send_packet", err)>>
                ELSE Append(calls, Call("avcodec_send_packet", err))
    /\ seen' = IF err = AVERROR_EAGAIN
               THEN seen \o <<av_packet, av_packet>>
               ELSE Append(seen, av_packet)
    /\ sendret' = send_result(err)
    /\ startover' = IF err >= 0 /\ av_packet = EmptyPacket THEN FALSE ELSE startover
    /\ pc' = "idle"
    /\ lastOp' = "hvd_send_packet"

\* the return of hvd_send_packet once avcodec_send_packet answered err
send_return(err) ==
    /\ calls' = Append(calls, Call("avcodec_send_packet", err))
    /\ seen' = Append(seen, av_packet)
    /\ sendret' = send_result(err)
    /\ startover' = IF err >= 0 /\ av_packet = EmptyPacket THEN FALSE ELSE startover
    /\ pc' = "idle"
    /\ lastOp' = "hvd_send_packet"

(***************************************************************************)
(* line 196, avcodec_send_packet.  The decoder refuses with EOF once it is *)
(* draining, with EAGAIN while frames wait to be read, and with another    *)
(* code at any time; an empty packet it accepts starts draining, a data    *)
(* packet makes it choose its format first and may complete a frame.       *)
(***************************************************************************)
send_avcodec ==
    /\ pc = "send_avcodec"
    /\ \/ \E err \in {AVERROR_EINVAL, AVERROR_INVALIDDATA} :
            /\ send_return(err)
            /\ UNCHANGED <<dec, cb>>
       \/ /\ dec.draining
          /\ send_return(AVERROR_EOF)
          /\ UNCHANGED <<dec, cb>>
       \/ /\ ~dec.draining
          /\ dec.buffered > 0
          /\ send_return(AVERROR_EAGAIN)
          /\ UNCHANGED <<dec, cb>>
       \/ /\ ~dec.draining
          /\ dec.buffered < MaxBuffered
          /\ av_packet = EmptyPacket
          /\ send_return(0)
          /\ dec' = [dec EXCEPT !.draining = TRUE]
          /\ cb' = cb
       \/ /\ ~dec.draining
          /\ dec.buffered < MaxBuffered
          /\ av_packet # EmptyPacket
          /\ dec.pix_fmt # AV_PIX_FMT_NONE
          /\ send_return(0)
          /\ \E n \in {dec.buffered, dec.buffered + 1} :
               dec' = [dec EXCEPT !.buffered = n]
          /\ cb' = cb
       \/ /\ ~dec.draining
          /\ dec.buffered < MaxBuffered
          /\ av_packet # EmptyPacket
          /\ dec.pix_fmt = AV_PIX_FMT_NONE
          /\ \E fmt \in AllFormats \cup {AV_PIX_FMT_NONE} :
               /\ Negotiate(fmt, cb')
               /\ IF fmt = AV_PIX_FMT_NONE
                  THEN /\ send_return(AVERROR_EINVAL)
                       /\ dec' = dec
                  ELSE /\ send_return(0)
                       /\ \E n \in {dec.buffered, dec.buffered + 1} :
                            dec' = [dec EXCEPT !.buffered = n, !.pix_fmt = fmt]
    /\ UNCHANGED <<handle, config, packet, hardware_type, decoder,
                   hvd_fields, ctx, frames, retval, error, sent, given>>

(**************************** hvd_receive_frame ****************************)
\* faulty variant: only hw_frame is freed, sw_frame is overwritten
free_hw_frame_only == av_frame_free(frames, hw_frame)

\* lines 219-220: the leftovers of the last call are freed
free_leftovers == av_frame_free(av_frame_free(frames, hw_frame), sw_frame)

\* faulty variant: *error is left as the caller passed it
error_left_unwritten == error

\* line 216
error_on_entry == HVD_ERROR

\* lines 213-220
hvd_receive_frame ==
    /\ pc = "idle"
    /\ handle = "valid"
    /\ Len(frames) + 2 <= MaxFrames
    /\ error' = error_on_entry
    /\ frames' = free_leftovers
    /\ hw_frame' = NULL
    /\ sw_frame' = NULL
    /\ given' = NoGiven
    /\ calls' = <<>>
    /\ cb' = NoCb
    /\ pc' = "recv_alloc_hw"
    /\ UNCHANGED <<handle, lastOp, config, packet, hardware_type, decoder,
                   hw_device_ctx, hw_pix_fmt, decoder_ctx, av_packet, ctx,
                   dec, retval, sendret, sent, seen, startover>>

\* the return of hvd_receive_frame with frame f
recv_return(f) ==
    /\ retval' = f
    /\ pc' = "idle"
    /\ lastOp' = "hvd_receive_frame"

\* line 222, first operand: h->hw_frame = av_frame_alloc()
recv_alloc_hw ==
    /\ pc = "recv_alloc_hw"
    /\ \/ /\ calls' = Append(calls, Call("av_frame_alloc", NULL))
          /\ hw_frame' = NULL
          /\ frames' = frames
          /\ recv_return(NULL)
       \/ /\ frames' = Append(frames, NewFrame)
          /\ hw_frame' = Len(frames')
          /\ calls' = Append(calls, Call("av_frame_alloc", hw_frame'))
          /\ pc' = "recv_alloc_sw"
          /\ UNCHANGED <<retval, lastOp>>
    /\ UNCHANGED <<handle, config, packet, hardware_type, decoder,
                   hw_device_ctx, hw_pix_fmt, decoder_ctx, sw_frame,
                   av_packet, ctx, dec, sendret, error, history, cb>>

\* line 222, second operand: h->sw_frame = av_frame_alloc()
recv_alloc_sw ==
    /\ pc = "recv_alloc_sw"
    /\ \/ /\ calls' = Append(calls, Call("av_frame_alloc", NULL))
          /\ sw_frame' = NULL
          /\ frames' = frames
          /\ recv_return(NULL)
       \/ /\ frames' = Append(frames, NewFrame)
          /\ sw_frame' = Len(frames')
          /\ calls' = Append(calls, Call("av_frame_alloc", sw_frame'))
          /\ pc' = "recv_receive"
          /\ UNCHANGED <<retval, lastOp>>
    /\ UNCHANGED <<handle, config, packet, hardware_type, decoder,
                   hw_device_ctx, hw_pix_fmt, decoder_ctx, hw_frame,
                   av_packet, ctx, dec, sendret, error, history, cb>>

\* line 231: *error for a negative code of avcodec_receive_frame
recv_error(ret) ==
    IF ret = AVERROR_EAGAIN \/ ret = AVERROR_EOF THEN HVD_OK ELSE HVD_ERROR

\* faulty variant: the decoder is never reset
startover_never(ret) == FALSE

\* line 235: whether the decoder is reset for a new stream
startover_on(ret) == ret = AVERROR_EOF

\* avcodec_flush_buffers
avcodec_flush_buffers(d) == [d EXCEPT !.draining = FALSE, !.buffered = 0]

\* lines 229-241: avcodec_receive_frame answered the negative code ret
recv_failed(ret) ==
    /\ calls' = IF startover_on(ret)
                THEN calls \o <<Call("avcodec_receive_frame", ret),
                                Call("avcodec_flush_buffers", 0)>>
                ELSE Append(calls, Call("avcodec_receive_frame", ret))
    /\ error' = recv_error(ret)
    /\ dec' = IF startover_on(ret) THEN avcodec_flush_buffers(dec) ELSE dec
    /\ startover' = (startover \/ ret = AVERROR_EOF)
    /\ frames' = frames
    /\ recv_return(NULL)

(***************************************************************************)
(* line 228, avcodec_receive_frame.  The decoder hands out a frame it      *)
(* holds, in the format it chose; with none left it answers EOF when it is *)
(* draining and EAGAIN otherwise; it may fail with another code any time.  *)
(***************************************************************************)
recv_receive ==
    /\ pc = "recv_receive"
    /\ \/ \E ret \in {AVERROR_EINVAL, AVERROR_INVALIDDATA} : recv_failed(ret)
       \/ /\ dec.buffered = 0
          /\ ~dec.draining
          /\ recv_failed(AVERROR_EAGAIN)
       \/ /\ dec.buffered = 0
          /\ dec.draining
          /\ recv_failed(AVERROR_EOF)
       \/ /\ dec.buffered > 0
          /\ calls' = Append(calls, Call("avcodec_receive_frame", 0))
          /\ dec' = [dec EXCEPT !.buffered = @ - 1]
          /\ frames' = [frames EXCEPT ![hw_frame].format = dec.pix_fmt,
                                      ![hw_frame].decoded = TRUE]
          /\ pc' = "recv_check_format"
          /\ UNCHANGED <<retval, lastOp, error, startover>>
    /\ UNCHANGED <<handle, config, packet, hardware_type, decoder,
                   hvd_fields, ctx, sendret, sent, seen, given, cb>>

\* faulty variant: the format of the frame is not looked at
in_any_format(format, fmt) == TRUE

\* line 243: the frame was decoded in hardware
in_hardware(format, fmt) == format = fmt

\* lines 243-247
recv_check_format ==
    /\ pc = "recv_check_format"
    /\ IF in_hardware(frames[hw_frame].format, hw_pix_fmt)
       THEN /\ pc' = "recv_transfer"
            /\ UNCHANGED <<retval, lastOp>>
       ELSE recv_return(NULL)
    /\ UNCHANGED <<handle, config, packet, hardware_type, decoder,
                   hvd_fields, ctx, dec, frames, sendret, error, calls,
                   history, cb>>

\* lines 250-257: av_hwframe_transfer_data fills sw_frame from hw_frame or
\* fails with a negative code
recv_transfer ==
    /\ pc = "recv_transfer"
    /\ \/ /\ calls' = Append(calls, Call("av_hwframe_transfer_data", AVERROR_EINVAL))
          /\ recv_return(NULL)
          /\ UNCHANGED <<frames, error, given>>
       \/ /\ calls' = Append(calls, Call("av_hwframe_transfer_data", 0))
          /\ frames' = [frames EXCEPT ![sw_frame].format = AV_PIX_FMT_YUV420P,
                                      ![sw_frame].src = hw_frame]
          /\ error' = HVD_OK
          /\ recv_return(sw_frame)
          /\ given' = [frame |-> sw_frame, contents |-> frames'[sw_frame]]
    /\ UNCHANGED <<handle, config, packet, hardware_type, decoder,
                   hvd_fields, ctx, dec, sendret, sent, seen, startover, cb>>

Next ==
    \/ hvd_init
    \/ init_find_type
    \/ init_find_pix_fmt
    \/ init_find_decoder
    \/ init_alloc_context
    \/ init_set_callback
    \/ init_hwdevice_create
    \/ init_buffer_ref
    \/ init_open
    \/ init_return
    \/ hvd_close
    \/ hvd_send_packet
    \/ send_avcodec
    \/ hvd_receive_frame
    \/ recv_alloc_hw
    \/ recv_alloc_sw
    \/ recv_receive
    \/ recv_check_format
    \/ recv_transfer

Spec == Init /\ [][Next]_vars

(***************************************************************************)
(*                              The claims                                 *)
(***************************************************************************)
AtReturn(op) == pc = "idle" /\ lastOp = op

CallsOf(fn) == SelectSeq(calls, LAMBDA c : c.fn = fn)

FnNames == [i \in DOMAIN calls |-> calls[i].fn]

LastRc == calls[Len(calls)].rc

SupportedHardware == {"vaapi", "dxva2", "d3d11va", "vdpau", "videotoolbox"}

HardwareFormats == {AV_PIX_FMT_VAAPI, AV_PIX_FMT_DXVA2_VLD, AV_PIX_FMT_D3D11,
                    AV_PIX_FMT_VDPAU, AV_PIX_FMT_VIDEOTOOLBOX}

\* what avcodec_receive_frame answered in the hvd_receive_frame call that
\* returned last; Received says that it was called at all
Received == Len(CallsOf("avcodec_receive_frame")) > 0
ReceiveRc == CallsOf("avcodec_receive_frame")[1].rc
AllocFailed == \E i \in DOMAIN calls :
                  calls[i].fn = "av_frame_alloc" /\ calls[i].rc = NULL
Transferred == Len(CallsOf("av_hwframe_transfer_data")) > 0
TransferRc == CallsOf("av_hwframe_transfer_data")[1].rc
SoftwareFrame == /\ Received
                 /\ ReceiveRc >= 0
                 /\ frames[hw_frame].format # hw_pix_fmt

(***************************************************************************)
(* C1: every hvd_receive_frame call ends in one of three outcomes: a frame *)
(* with *error = HVD_OK; NULL with HVD_OK exactly when                     *)
(* avcodec_receive_frame answered EAGAIN or EOF; NULL with HVD_ERROR for   *)
(* every other failure (allocation, other negative code, frame not in the  *)
(* hardware format, failed transfer).  *error is never HVD_AGAIN and no    *)
(* frame comes with HVD_ERROR.                                             *)
(***************************************************************************)
C1_ReceiveOutcomes ==
    AtReturn("hvd_receive_frame") =>
        /\ error \in {HVD_OK, HVD_ERROR}
        /\ (retval # NULL => error = HVD_OK)
        /\ (retval = NULL /\ error = HVD_OK)
             <=> (Received /\ ReceiveRc \in {AVERROR_EAGAIN, AVERROR_EOF})
        /\ AllocFailed => (retval = NULL /\ error = HVD_ERROR)
        /\ (Received /\ ReceiveRc < 0 /\ ReceiveRc \notin {AVERROR_EAGAIN, AVERROR_EOF})
             => (retval = NULL /\ error = HVD_ERROR)
        /\ SoftwareFrame => (retval = NULL /\ error = HVD_ERROR)
        /\ (Transferred /\ TransferRc < 0) => (retval = NULL /\ error = HVD_ERROR)
        /\ retval # NULL
             <=> (/\ ~AllocFailed
                  /\ Received /\ ReceiveRc >= 0
                  /\ ~SoftwareFrame
                  /\ Transferred /\ TransferRc >= 0)

\* a call that failed to allocate a frame after an earlier call left HVD_OK
C1_Witness ==
    /\ AtReturn("hvd_receive_frame")
    /\ AllocFailed
    /\ retval = NULL
    /\ error = HVD_ERROR
    /\ Len(frames) > 1

(***************************************************************************)
(* C2: hvd_send_packet returns HVD_OK iff avcodec_send_packet returned a   *)
(* non-negative code, HVD_AGAIN iff it returned AVERROR(EAGAIN), and       *)
(* HVD_ERROR for every other negative code.                                *)
(***************************************************************************)
C2_SendTranslation ==
    AtReturn("hvd_send_packet") =>
        /\ sendret = HVD_OK <=> LastRc >= 0
        /\ sendret = HVD_AGAIN <=> LastRc = AVERROR_EAGAIN
        /\ sendret = HVD_ERROR <=> (LastRc < 0 /\ LastRc # AVERROR_EAGAIN)

C2_Witness ==
    /\ AtReturn("hvd_send_packet")
    /\ LastRc = AVERROR_EAGAIN
    /\ sendret = HVD_AGAIN

(***************************************************************************)
(* C3: hvd_init attempts its setup steps in the fixed order, stops at the  *)
(* first that fails and returns NULL then; it returns a handle iff all     *)
(* eight succeed.  An unknown hardware name, a hardware type without pixel *)
(* format or an unknown codec name never gets a device created or a codec  *)
(* opened.                                                                 *)
(***************************************************************************)
InitOrder == <<"malloc", "av_hwdevice_find_type_by_name",
               "hvd_find_pixel_fmt_by_hw_type", "avcodec_find_decoder_by_name",
               "avcodec_alloc_context3", "av_hwdevice_ctx_create",
               "av_buffer_ref", "avcodec_open2">>

StepOk(c) ==
    CASE c.fn = "malloc" -> c.rc # NULL
      [] c.fn = "av_hwdevice_find_type_by_name" -> c.rc # AV_HWDEVICE_TYPE_NONE
      [] c.fn = "hvd_find_pixel_fmt_by_hw_type" -> c.rc # AV_PIX_FMT_NONE
      [] c.fn = "avcodec_find_decoder_by_name" -> c.rc # NULL
      [] c.fn = "avcodec_alloc_context3" -> c.rc # NULL
      [] c.fn = "av_hwdevice_ctx_create" -> c.rc >= 0
      [] c.fn = "av_buffer_ref" -> c.rc # NULL
      [] c.fn = "avcodec_open2" -> c.rc >= 0
      [] OTHER -> FALSE

InInit == pc \in {"init_find_type", "init_find_pix_fmt", "init_find_decoder",
                  "init_alloc_context", "init_set_callback",
                  "init_hwdevice_create", "init_buffer_ref", "init_open",
                  "init_return"}

C3_InitSteps ==
    /\ (InInit \/ AtReturn("hvd_init")) =>
        /\ Len(calls) >= 1
        /\ Len(calls) <= Len(InitOrder)
        /\ FnNames = SubSeq(InitOrder, 1, Len(calls))
        /\ \A i \in 1..(Len(calls) - 1) : StepOk(calls[i])
        /\ (config.hardware \notin SupportedHardware \/ config.codec # "h264")
             => /\ CallsOf("av_hwdevice_ctx_create") = <<>>
                /\ CallsOf("avcodec_open2") = <<>>
                /\ hw_device_ctx = NULL
                /\ ~ctx.open
    /\ InInit => StepOk(calls[Len(calls)])
    /\ AtReturn("hvd_init") =>
        /\ retval # NULL <=> (Len(calls) = Len(InitOrder) /\ StepOk(calls[Len(calls)]))
        /\ retval = NULL <=> ~StepOk(calls[Len(calls)])
        /\ retval = NULL => (hw_device_ctx = NULL /\ decoder_ctx = NULL)

\* the codec name is unknown: the hardware was found, nothing was created
C3_Witness ==
    /\ AtReturn("hvd_init")
    /\ retval = NULL
    /\ config.hardware = "vaapi"
    /\ config.codec = "nosuchcodec"
    /\ Len(calls) = 4

(***************************************************************************)
(* C4: the frame hvd_receive_frame returned stays allocated and unchanged  *)
(* until the next hvd_receive_frame or hvd_close, which frees it exactly   *)
(* once; hvd_send_packet leaves it alone.  The frames allocated are at any *)
(* time at most the handle's hw_frame and sw_frame: every other frame ever *)
(* allocated has been freed, once.                                         *)
(***************************************************************************)
Held == {hw_frame, sw_frame} \ {NULL}

C4_FrameOwnership ==
    /\ \A f \in DOMAIN frames :
         IF f \in Held
         THEN frames[f].live /\ frames[f].frees = 0
         ELSE ~frames[f].live /\ frames[f].frees = 1
    /\ Held \subseteq DOMAIN frames
    /\ (hw_frame # NULL /\ sw_frame # NULL) => hw_frame # sw_frame
    /\ Cardinality({f \in DOMAIN frames : frames[f].live}) <= 2
    /\ given.frame # NULL =>
         /\ given.frame = sw_frame
         /\ frames[given.frame].live
         /\ frames[given.frame] = given.contents
    /\ AtReturn("hvd_receive_frame") => given.frame = retval
    /\ handle = "closed" => \A f \in DOMAIN frames : ~frames[f].live

\* a returned frame outlived a hvd_send_packet and was freed, once, by the
\* hvd_receive_frame call that returned the next frame
C4_Witness ==
    /\ AtReturn("hvd_receive_frame")
    /\ given.frame # NULL
    /\ Len(sent) = 2
    /\ \E f \in DOMAIN frames :
         /\ f # given.frame
         /\ frames[f].src # NULL
         /\ frames[f].frees = 1

(***************************************************************************)
(* C5: a NULL packet reaches the decoder as the empty packet (data NULL,   *)
(* size 0).  The hvd_receive_frame call that sees EOF returns NULL with    *)
(* HVD_OK and resets the decoder, so that a packet sent afterwards is not  *)
(* refused with EOF; the decoder is reset on EOF only.                     *)
(***************************************************************************)
Flushed == Len(CallsOf("avcodec_flush_buffers")) > 0

C5_FlushAndStartOver ==
    /\ (AtReturn("hvd_send_packet") /\ packet.null) =>
         /\ seen[Len(seen)] = [data |-> NULL, size |-> 0]
         /\ av_packet = [data |-> NULL, size |-> 0]
    /\ (AtReturn("hvd_receive_frame") /\ Received /\ ReceiveRc = AVERROR_EOF) =>
         /\ retval = NULL
         /\ error = HVD_OK
         /\ Flushed
         /\ ~dec.draining
    /\ Flushed => (Received /\ ReceiveRc = AVERROR_EOF)
    /\ (AtReturn("hvd_send_packet") /\ startover /\ ~packet.null) =>
         LastRc # AVERROR_EOF

\* flush, EOF read, and the first packet of the next stream accepted
C5_Witness ==
    /\ AtReturn("hvd_send_packet")
    /\ startover
    /\ ~packet.null
    /\ packet.data # NULL
    /\ sendret = HVD_OK
    /\ Len(sent) = 2
    /\ sent[1].null

(***************************************************************************)
(* C6: a frame returned by hvd_receive_frame is the handle's sw_frame,     *)
(* filled by a successful transfer from the hw_frame the decoder produced  *)
(* in the configured hardware format.  A frame in another format is never  *)
(* transferred nor returned: the call yields NULL with HVD_ERROR.          *)
(***************************************************************************)
C6_HardwareFramesOnly ==
    AtReturn("hvd_receive_frame") =>
        /\ retval # NULL =>
             /\ retval = sw_frame
             /\ frames[sw_frame].src = hw_frame
             /\ frames[hw_frame].decoded
             /\ frames[hw_frame].format = hw_pix_fmt
             /\ Transferred /\ TransferRc >= 0
        /\ SoftwareFrame =>
             /\ retval = NULL
             /\ error = HVD_ERROR
             /\ ~Transferred
             /\ frames[sw_frame].src = NULL

\* the decoder produced a frame in software
C6_Witness ==
    /\ AtReturn("hvd_receive_frame")
    /\ SoftwareFrame
    /\ frames[hw_frame].format = AV_PIX_FMT_YUV420P
    /\ retval = NULL

(***************************************************************************)
(* C7: each hvd_send_packet call makes exactly one avcodec_send_packet     *)
(* call, with the caller's data and size or the empty packet; each         *)
(* hvd_receive_frame call makes at most one avcodec_receive_frame call and *)
(* sends nothing.  The packets the decoder sees are exactly those of the   *)
(* hvd_send_packet calls, in order: a refused packet is not sent again.    *)
(***************************************************************************)
AsSeen(pkt) == [data |-> IF pkt.null THEN NULL ELSE pkt.data,
                size |-> IF pkt.null THEN 0 ELSE pkt.size]

C7_NoBufferingNoRetry ==
    /\ AtReturn("hvd_send_packet") =>
         /\ Len(CallsOf("avcodec_send_packet")) = 1
         /\ ~Received
    /\ (AtReturn("hvd_receive_frame") \/ pc \in {"recv_check_format", "recv_transfer"}) =>
         /\ Len(CallsOf("avcodec_receive_frame")) <= 1
         /\ CallsOf("avcodec_send_packet") = <<>>
    /\ pc # "send_avcodec" =>
         /\ Len(seen) = Len(sent)
         /\ \A i \in DOMAIN sent : seen[i] = AsSeen(sent[i])
    /\ pc = "send_avcodec" =>
         /\ Len(seen) = Len(sent) - 1
         /\ \A i \in DOMAIN seen : seen[i] = AsSeen(sent[i])

\* the second packet was refused, and the hvd_receive_frame call after it
\* sent nothing
C7_Witness ==
    /\ AtReturn("hvd_receive_frame")
    /\ Len(sent) = 2
    /\ ~sent[2].null
    /\ sendret \in {HVD_AGAIN, HVD_ERROR}
    /\ Len(seen) = 2

(***************************************************************************)
(* C8: hvd_get_hw_pix_format returns the handle's hardware pixel format    *)
(* iff the offered list holds it and AV_PIX_FMT_NONE otherwise, so never a *)
(* software format.  From avcodec_open2 on, hw_pix_fmt and the context's   *)
(* opaque pointer are set.                                                 *)
(***************************************************************************)
Offered(l) == { l[i] : i \in 1..(Len(l) - 1) }

C8_GetFormat ==
    /\ cb.ran =>
         /\ cb.opaque = H
         /\ cb.hw_pix_fmt = hw_pix_fmt
         /\ cb.result = IF hw_pix_fmt \in Offered(cb.pix_fmts)
                        THEN hw_pix_fmt
                        ELSE AV_PIX_FMT_NONE
         /\ cb.result \in HardwareFormats \cup {AV_PIX_FMT_NONE}
    /\ (pc = "init_open" \/ ctx.open) =>
         /\ ctx.opaque = H
         /\ ctx.get_format
         /\ hw_pix_fmt \in HardwareFormats
    /\ dec.pix_fmt \in {AV_PIX_FMT_NONE, AV_PIX_FMT_YUV420P, hw_pix_fmt}

\* the hardware format was offered behind another format, and was chosen
C8_Witness ==
    /\ cb.ran
    /\ cb.result = hw_pix_fmt
    /\ Len(cb.pix_fmts) = 3
    /\ cb.pix_fmts[1] # hw_pix_fmt

=============================================================================
